---------------------------- MODULE Spec2Model ----------------------------
(***************************************************************************)
(* Model of the CheckTruth food analyser: src/app.py (the served           *)
(* application) and src/backend/app.py (the earlier backend variant).      *)
(*                                                                         *)
(* Quantities.  Python floats become fixed-point integers counted in       *)
(* millionths of the source unit: Dec(35, 0) is 35.0 and Dec(0, 100) is    *)
(* 0.1.  A comparison of two floats becomes the comparison of their        *)
(* fixed-point values; x / 1000 becomes x \div 1000.                       *)
(*                                                                         *)
(* Strings.  A string the code searches or splits is a sequence of         *)
(* one-character strings; a string the code only passes on is a TLA+       *)
(* string.                                                                 *)
(***************************************************************************)
EXTENDS Integers, Sequences, FiniteSets, TLC

VARIABLES
    pc,                 \* position of the run in progress
    nutrition_facts,    \* calculate_health_score / generate_disease_warnings argument
    flagged_chemicals,  \* calculate_health_score / generate_disease_warnings argument
    health,             \* (score, status) returned by calculate_health_score
    ingredients_text,   \* the product's ingredient listing
    disease_warnings,   \* the warnings: a set while collected, a list once sorted
    fda_cache,          \* lru_cache of check_fda_adverse_events, least recent first
    fda_calls,          \* the requests sent to the adverse-event endpoint, in order
    fda_result,         \* what the last check_fda_adverse_events call returned
    lookups,            \* the check_fda_adverse_events calls made, in order
    barcode,            \* the barcode of the request in progress
    product,            \* the product record the request works on
    ingredients_list,   \* analyze_food: the trimmed, non-empty ingredient tokens
    fda_idx,            \* analyze_food: position of the Layer 3 loop in ingredients_list
    response,           \* the response of the request in progress
    product_cache,      \* lru_cache of fetch_product_from_openfoodfacts, least recent first
    product_calls,      \* the barcodes sent to the product data source, in order
    requests            \* the requests answered, in order

pipelineVars == <<nutrition_facts, flagged_chemicals, health, ingredients_text,
                  disease_warnings>>
fdaVars == <<fda_cache, fda_calls, fda_result, lookups>>
requestVars == <<barcode, product, ingredients_list, fda_idx, response,
                 product_cache, product_calls, requests>>
vars == <<pc, pipelineVars, fdaVars, requestVars>>

\* whole + thousandths/1000, in millionths
Dec(whole, thousandths) == whole * 1000000 + thousandths * 1000

NoValue == [none |-> TRUE]

IdleRequest ==
    /\ barcode = << >>
    /\ product = NoValue
    /\ ingredients_list = << >>
    /\ fda_idx = 0
    /\ response = NoValue
    /\ product_cache = << >>
    /\ product_calls = << >>
    /\ requests = << >>

IdleFda ==
    /\ fda_cache = << >>
    /\ fda_calls = << >>
    /\ fda_result = NoValue
    /\ lookups = << >>

\* Python values whose type the code tests: None, a str (its characters), a
\* number (fixed point)
PyNone == [type |-> "NoneType"]
PyStr(chars) == [type |-> "str", val |-> chars]
PyNum(v) == [type |-> "float", val |-> v]

---------------------------------------------------------------------------
(* Config.NUTRITION_THRESHOLDS: per nutrient, the tiers from the highest   *)
(* threshold down, each (value, penalty).                                  *)
NUTRITION_THRESHOLDS ==
    [ sugars        |-> << [value |-> Dec(30, 0),  penalty |-> 40],
                           [value |-> Dec(20, 0),  penalty |-> 30],
                           [value |-> Dec(10, 0),  penalty |-> 20],
                           [value |-> Dec(5, 0),   penalty |-> 10] >>,
      saturated_fat |-> << [value |-> Dec(10, 0),  penalty |-> 20],
                           [value |-> Dec(5, 0),   penalty |-> 15],
                           [value |-> Dec(2, 0),   penalty |-> 8] >>,
      trans_fat     |-> << [value |-> Dec(0, 100), penalty |-> 25],
                           [value |-> Dec(0, 1),   penalty |-> 15] >>,
      sodium        |-> << [value |-> Dec(1, 500), penalty |-> 20],
                           [value |-> Dec(0, 800), penalty |-> 15],
                           [value |-> Dec(0, 300), penalty |-> 8] >>,
      calories      |-> << [value |-> Dec(500, 0), penalty |-> 20],
                           [value |-> Dec(400, 0), penalty |-> 15],
                           [value |-> Dec(300, 0), penalty |-> 10] >> ]

\* the if/elif chain over one nutrient's tiers: the first tier exceeded, else 0
RECURSIVE TierPenalty(_, _)
TierPenalty(x, tiers) ==
    IF tiers = << >> THEN 0
    ELSE IF x > Head(tiers).value THEN Head(tiers).penalty
    ELSE TierPenalty(x, Tail(tiers))

\* sum of the penalties list before the chemical penalty is appended
NutrientPenalties(sugars, sat_fat, trans_fat, sodium, calories) ==
      TierPenalty(sugars,    NUTRITION_THRESHOLDS.sugars)
    + TierPenalty(sat_fat,   NUTRITION_THRESHOLDS.saturated_fat)
    + TierPenalty(trans_fat, NUTRITION_THRESHOLDS.trans_fat)
    + TierPenalty(sodium,    NUTRITION_THRESHOLDS.sodium)
    + TierPenalty(calories,  NUTRITION_THRESHOLDS.calories)

ProteinBonus(protein) ==
    IF protein > Dec(10, 0) THEN 15
    ELSE IF protein > Dec(6, 0) THEN 10
    ELSE IF protein > Dec(3, 0) THEN 5
    ELSE 0

FiberBonus(fiber) ==
    IF fiber > Dec(8, 0) THEN 20
    ELSE IF fiber > Dec(5, 0) THEN 15
    ELSE IF fiber > Dec(3, 0) THEN 8
    ELSE IF fiber > Dec(1, 0) THEN 3
    ELSE 0

BalancedBonus(protein, fiber, sugars, sat_fat) ==
    IF /\ Dec(4, 0) < protein /\ protein < Dec(15, 0)
       /\ Dec(2, 0) < fiber   /\ fiber < Dec(10, 0)
       /\ sugars < Dec(10, 0)
       /\ sat_fat < Dec(3, 0)
    THEN 10 ELSE 0

\* macros.get(key, 0)
MacroGet(macros, key) == IF key \in DOMAIN macros THEN macros[key] ELSE 0

\* one iteration of the loop over flagged_chemicals
ChemicalPenaltyOf(chem) ==
      (IF chem.risk_level = "high" THEN 15
       ELSE IF chem.risk_level = "medium" THEN 10
       ELSE 5)
    + (IF MacroGet(chem.macros, "sugars_per_100g") > Dec(50, 0) THEN 5 ELSE 0)
    + (IF MacroGet(chem.macros, "saturated_fat_per_100g") > Dec(20, 0) THEN 5 ELSE 0)
    + (IF MacroGet(chem.macros, "trans_fat_per_100g") > Dec(0, 100) THEN 10 ELSE 0)
    + (IF MacroGet(chem.macros, "sodium_per_100g") > Dec(1000, 0) THEN 3 ELSE 0)

RECURSIVE SumChemicalPenalty(_)
SumChemicalPenalty(chems) ==
    IF chems = << >> THEN 0
    ELSE ChemicalPenaltyOf(Head(chems)) + SumChemicalPenalty(Tail(chems))

Min(a, b) == IF a < b THEN a ELSE b
Max(a, b) == IF a > b THEN a ELSE b

\* the mutant of ChemicalPenalty: the cap left out
ChemicalPenaltyNoCap(chems) == SumChemicalPenalty(chems)

\* chemical_penalty = min(40, chemical_penalty)
ChemicalPenalty(chems) == Min(40, SumChemicalPenalty(chems))

\* nutrition_facts.get(key, 0)
NfGet(nf, key) == IF key \in DOMAIN nf THEN nf[key] ELSE 0

\* score = base_score + total_bonuses - total_penalties
AggregateScore(nf, chems) ==
    LET sugars    == NfGet(nf, "sugars")
        sat_fat   == NfGet(nf, "saturated_fat")
        trans_fat == NfGet(nf, "trans_fat")
        sodium    == NfGet(nf, "sodium") \div 1000
        calories  == NfGet(nf, "calories")
        protein   == NfGet(nf, "protein")
        fiber     == NfGet(nf, "fiber")
    IN  50
        + (ProteinBonus(protein) + FiberBonus(fiber)
           + BalancedBonus(protein, fiber, sugars, sat_fat))
        - (NutrientPenalties(sugars, sat_fat, trans_fat, sodium, calories)
           + ChemicalPenalty(chems))

\* the mutant of AutoFail: the ceilings applied with max() for min()
AutoFailMax(score, nf, chems) ==
    LET s1 == IF NfGet(nf, "sugars") > Dec(25, 0)
                 /\ NfGet(nf, "protein") + NfGet(nf, "fiber") < Dec(3, 0)
              THEN Max(score, 25) ELSE score
        s2 == IF NfGet(nf, "trans_fat") > Dec(0, 300) THEN Max(s1, 20) ELSE s1
        s3 == IF NfGet(nf, "fat") > Dec(35, 0) /\ NfGet(nf, "fiber") < Dec(2, 0)
              THEN Max(s2, 30) ELSE s2
    IN  IF Len(chems) >= 5 THEN Max(s3, 20) ELSE s3

\* the auto-fail conditions, in the order of the code
AutoFail(score, nf, chems) ==
    LET s1 == IF NfGet(nf, "sugars") > Dec(25, 0)
                 /\ NfGet(nf, "protein") + NfGet(nf, "fiber") < Dec(3, 0)
              THEN Min(score, 25) ELSE score
        s2 == IF NfGet(nf, "trans_fat") > Dec(0, 300) THEN Min(s1, 20) ELSE s1
        s3 == IF NfGet(nf, "fat") > Dec(35, 0) /\ NfGet(nf, "fiber") < Dec(2, 0)
              THEN Min(s2, 30) ELSE s2
    IN  IF Len(chems) >= 5 THEN Min(s3, 20) ELSE s3

\* the mutant of ClampScore: the lower clamp left out
ClampScoreNoFloor(score) == Min(100, score)

\* score = max(0, min(100, int(score))); score is already an int
ClampScore(score) == Max(0, Min(100, score))

TRANS_FAT_STATUS  == "Contains Trans Fats"
HIGH_SUGAR_STATUS == "High Sugar Warning"

\* the band of a score, the last five branches of the status chain
ScoreBand(score) ==
    IF score >= 85 THEN "Excellent Choice"
    ELSE IF score >= 70 THEN "Good Choice"
    ELSE IF score >= 50 THEN "Average"
    ELSE IF score >= 35 THEN "Unhealthy"
    ELSE "Very Unhealthy"

\* the mutant of DetermineStatus: the band decided before the special conditions
DetermineStatusBandFirst(score, nf) ==
    IF score >= 35 THEN ScoreBand(score)
    ELSE IF NfGet(nf, "trans_fat") > Dec(0, 1) THEN TRANS_FAT_STATUS
    ELSE IF NfGet(nf, "sugars") > Dec(20, 0) /\ NfGet(nf, "protein") < Dec(5, 0)
         THEN HIGH_SUGAR_STATUS
    ELSE ScoreBand(score)

\* the status chain: special condition checks first
DetermineStatus(score, nf) ==
    IF NfGet(nf, "trans_fat") > Dec(0, 1) THEN TRANS_FAT_STATUS
    ELSE IF NfGet(nf, "sugars") > Dec(20, 0) /\ NfGet(nf, "protein") < Dec(5, 0)
         THEN HIGH_SUGAR_STATUS
    ELSE ScoreBand(score)

calculate_health_score(nf, chems) ==
    LET score == ClampScore(AutoFail(AggregateScore(nf, chems), nf, chems))
    IN  [score |-> score, status |-> DetermineStatus(score, nf)]

---------------------------------------------------------------------------
(* Strings as sequences of characters.                                     *)
UPPER == <<"A", "B", "C", "D", "E", "F", "G", "H", "I", "J", "K", "L", "M", "N", "O", "P", "Q", "R", "S", "T", "U", "V", "W", "X", "Y", "Z">>
LOWER == <<"a", "b", "c", "d", "e", "f", "g", "h", "i", "j", "k", "l", "m", "n", "o", "p", "q", "r", "s", "t", "u", "v", "w", "x", "y", "z">>
DIGITS == {"0", "1", "2", "3", "4", "5", "6", "7", "8", "9"}

IndexIn(c, seq) == IF \E i \in 1..Len(seq) : seq[i] = c
                   THEN CHOOSE i \in 1..Len(seq) : seq[i] = c
                   ELSE 0

\* str.lower(), character by character
LowerChar(c) == IF IndexIn(c, UPPER) > 0 THEN LOWER[IndexIn(c, UPPER)] ELSE c
Lower(str) == [i \in 1..Len(str) |-> LowerChar(str[i])]

\* needle occurs in hay at position i (1-based)
OccursAt(needle, hay, i) ==
    /\ i >= 1
    /\ i + Len(needle) - 1 <= Len(hay)
    /\ \A k \in 1..Len(needle) : hay[i + k - 1] = needle[k]

\* Python's `needle in hay` on strings
Contains(needle, hay) == \E i \in 1..(Len(hay) + 1) : OccursAt(needle, hay, i)

---------------------------------------------------------------------------
(* HARMFUL_CHEMICALS: the knowledge base loaded at start, in file order.   *)
(* An entry is (key, details); details is a mapping that may lack any of   *)
(* its fields, or is not a mapping at all ([scalar |-> value]).  src/app.py *)
(* reads cause, avoid, risk_level and macros; src/backend/app.py reads     *)
(* name and diseases_to_avoid.                                             *)
NumChemicals == 6

ChemicalEntry(i) ==
    CASE i = 1 -> [key |-> <<"g", "a", "r">>,
                   details |-> [cause |-> <<"K", "n", "o", "w", "n", " ", "C", "a", "r", "c", "i", "n", "o", "g", "e", "n">>,
                                avoid |-> "Everyone",
                                risk_level |-> "high",
                                diseases_to_avoid |-> <<<<"H", "e", "a", "r", "t", " ", "D", "i", "s", "e", "a", "s", "e">>,
                                                        <<"C", "a", "n", "c", "e", "r">>>>,
                                macros |-> [sugars_per_100g |-> Dec(60, 0),
                                            saturated_fat_per_100g |-> Dec(25, 0),
                                            trans_fat_per_100g |-> Dec(0, 500),
                                            sodium_per_100g |-> Dec(1200, 0)]]]
      [] i = 2 -> [key |-> <<"a", "l", "t">>,
                   details |-> [cause |-> <<"h", "e", "a", "r", "t", " ", "a", "n", "d", " ", "k", "i", "d", "n", "e", "y", " ", "s", "t", "r", "a", "i", "n">>,
                                diseases_to_avoid |-> <<<<"H", "y", "p", "e", "r", "t", "e", "n", "s", "i", "o", "n">>>>,
                                risk_level |-> "medium"]]
      [] i = 3 -> [key |-> <<"s", "u", "g", "a", "r">>,
                   details |-> [name |-> <<"S", "u", "g", "a", "r">>,
                                cause |-> <<"r", "a", "i", "s", "e", "s", " ", "b", "l", "o", "o", "d", " ", "s", "u", "g", "a", "r", ",", " ", "w", "e", "i", "g", "h", "t", " ", "g", "a", "i", "n">>,
                                diseases_to_avoid |-> <<<<"D", "i", "a", "b", "e", "t", "e", "s">>,
                                                        <<"H", "e", "a", "r", "t", " ", "D", "i", "s", "e", "a", "s", "e">>>>,
                                avoid |-> "Diabetics",
                                risk_level |-> "low",
                                macros |-> [sugars_per_100g |-> Dec(100, 0)]]]
      [] i = 4 -> [key |-> <<"e", "6", "2", "1">>, details |-> [scalar |-> "not a mapping"]]
      [] i = 5 -> [key |-> <<"s", "e", "a", " ", "s", "a", "l", "t">>,
                   details |-> [cause |-> <<"c", "a", "r", "d", "i", "o", "v", "a", "s", "c", "u", "l", "a", "r", " ", "r", "i", "s", "k">>]]
      [] i = 6 -> [key |-> <<"E", "1", "0", "2">>,
                   details |-> [cause |-> <<"A", "l", "l", "e", "r", "g", "y", ",", " ", "l", "i", "v", "e", "r", " ", "d", "a", "m", "a", "g", "e">>,
                                risk_level |-> "severe",
                                diseases_to_avoid |-> << >>,
                                macros |-> << >>]]
      [] OTHER -> [key |-> <<"b", "h", "a">>,
                   details |-> [risk_level |-> "high",
                                macros |-> [sodium_per_100g |-> Dec(1500, 0)]]]

HARMFUL_CHEMICALS == [i \in 1..NumChemicals |-> ChemicalEntry(i)]

\* isinstance(details, dict): a JSON value that is no object is [scalar |-> v]
IsMapping(details) == "scalar" \notin DOMAIN details

\* details.get(field, default)
DetailsGet(details, field, default) ==
    IF field \in DOMAIN details THEN details[field] ELSE default

UNKNOWN_CAUSE == <<"U", "n", "k", "n", "o", "w", "n", " ", "h", "e", "a", "l", "t", "h", " ", "c", "o", "n", "c", "e", "r", "n">>

\* the flagged_item built for a matched entry
FlaggedItem(entry) ==
    [ name       |-> entry.key,
      cause      |-> DetailsGet(entry.details, "cause", UNKNOWN_CAUSE),
      avoid      |-> DetailsGet(entry.details, "avoid", "General population"),
      risk_level |-> DetailsGet(entry.details, "risk_level", "medium"),
      macros     |-> DetailsGet(entry.details, "macros", << >>) ]

---------------------------------------------------------------------------
(* The scoring run: calculate_health_score applied to a nutrient profile   *)
(* and a flagged-chemical list.                                            *)

\* the values a profile takes: each tier of each table, both sides of each
\* override and bonus condition
ProfileValues ==
    [ sugars        |-> {0, Dec(8, 0), Dec(22, 0), Dec(28, 0), Dec(35, 0)},
      saturated_fat |-> {Dec(1, 0), Dec(12, 0)},
      trans_fat     |-> {0, Dec(0, 50), Dec(0, 200), Dec(0, 500)},
      sodium        |-> {Dec(0, 100), Dec(2000, 0)},
      calories      |-> {0, Dec(550, 0)},
      protein       |-> {Dec(1, 0), Dec(8, 0), Dec(12, 0)},
      fiber         |-> {0, Dec(4, 0), Dec(9, 0)},
      fat           |-> {0, Dec(40, 0)} ]

Profiles ==
    [ sugars : ProfileValues.sugars, saturated_fat : ProfileValues.saturated_fat,
      trans_fat : ProfileValues.trans_fat, sodium : ProfileValues.sodium,
      calories : ProfileValues.calories, protein : ProfileValues.protein,
      fiber : ProfileValues.fiber, fat : ProfileValues.fat ]

\* the values one penalized nutrient is moved through: one in every tier and
\* on every threshold
PenalizedValues ==
    [ sugars        |-> {0, Dec(5, 0), Dec(8, 0), Dec(10, 0), Dec(15, 0), Dec(20, 0),
                         Dec(22, 0), Dec(25, 1), Dec(30, 0), Dec(35, 0)},
      saturated_fat |-> {0, Dec(2, 0), Dec(2, 500), Dec(3, 0), Dec(5, 1), Dec(10, 0),
                         Dec(12, 0)},
      trans_fat     |-> {0, Dec(0, 1), Dec(0, 50), Dec(0, 100), Dec(0, 200),
                         Dec(0, 300), Dec(0, 500)},
      sodium        |-> {0, Dec(300, 0), Dec(500, 0), Dec(800, 1), Dec(1500, 0),
                         Dec(2000, 0)},
      calories      |-> {0, Dec(300, 0), Dec(350, 0), Dec(400, 1), Dec(500, 0),
                         Dec(550, 0)} ]

PenalizedNutrients == DOMAIN PenalizedValues

\* the entries of the knowledge base a list can be drawn from
MappingEntries == {i \in 1..NumChemicals : IsMapping(HARMFUL_CHEMICALS[i].details)}

RECURSIVE ItemsOf(_, _)
\* the flagged items of the entries in S, in table order, from entry i on
ItemsOf(S, i) ==
    IF i > NumChemicals THEN << >>
    ELSE IF i \in S THEN <<FlaggedItem(HARMFUL_CHEMICALS[i])>> \o ItemsOf(S, i + 1)
    ELSE ItemsOf(S, i + 1)

FlaggedLists == {ItemsOf(S, 1) : S \in SUBSET MappingEntries}

InitScore ==
    /\ pc = "profile"
    /\ nutrition_facts \in Profiles
    /\ flagged_chemicals \in FlaggedLists
    /\ health = NoValue
    /\ ingredients_text = PyNone
    /\ disease_warnings = << >>
    /\ IdleFda
    /\ IdleRequest

CalculateHealthScore ==
    /\ pc = "profile"
    /\ health' = calculate_health_score(nutrition_facts, flagged_chemicals)
    /\ pc' = "scored"
    /\ UNCHANGED <<nutrition_facts, flagged_chemicals, ingredients_text,
                   disease_warnings, fdaVars, requestVars>>

NextScore == CalculateHealthScore

SpecScore == InitScore /\ [][NextScore]_vars

\* C1: the score returned by calculate_health_score is an integer in 0..100
ScoreInRange ==
    pc = "scored" => health.score \in 0..100

\* C1 witness: a run whose aggregate score is negative has been scored
ScoreInRangeWitness ==
    /\ pc = "scored"
    /\ AggregateScore(nutrition_facts, flagged_chemicals) < 0
    /\ health.score = 0

\* C2: a profile whose trans_fat exceeds the severe ('high') threshold of
\* Config.NUTRITION_THRESHOLDS scores at most 20, whatever the bonuses and the
\* flagged list
TransFatSevereCap ==
    (pc = "scored"
     /\ nutrition_facts.trans_fat > NUTRITION_THRESHOLDS.trans_fat[1].value)
        => health.score <= 20

\* the score of the run's profile with one nutrient replaced
ScoreWith(nutrient, value) ==
    calculate_health_score([nutrition_facts EXCEPT ![nutrient] = value],
                           flagged_chemicals).score

\* C3: for each penalized nutrient, of two profiles that differ only in that
\* nutrient, with the same flagged list, the one with the larger value never
\* scores higher
ScoreMonotone ==
    pc = "scored" =>
        \A n \in PenalizedNutrients : \A v \in PenalizedValues[n] :
            /\ v >= nutrition_facts[n] => ScoreWith(n, v) <= health.score
            /\ v <= nutrition_facts[n] => ScoreWith(n, v) >= health.score

\* C3 witness: a scored profile for which a larger sugar value meets the
\* high-sugar auto-fail condition and lowers the score to its ceiling
ScoreMonotoneWitness ==
    /\ pc = "scored"
    /\ nutrition_facts.sugars = 0
    /\ health.score > 25
    /\ ScoreWith("sugars", Dec(25, 1)) < health.score

SugarScenario ==
    [ sugars |-> Dec(35, 0), saturated_fat |-> Dec(1, 0), trans_fat |-> 0,
      sodium |-> Dec(0, 100), calories |-> 0, protein |-> Dec(1, 0),
      fiber |-> 0, fat |-> 0 ]

\* C8: the override checks take precedence over the numeric band: trans fat
\* present gives the trans-fat status whatever the score; otherwise high sugar
\* with low protein gives the high-sugar status; otherwise the status is the
\* band of the score; and the two scenarios of the specification
StatusPrecedence ==
    pc = "scored" =>
        LET transPresent == nutrition_facts.trans_fat > Dec(0, 1)
            highSugar    == /\ nutrition_facts.sugars > Dec(20, 0)
                            /\ nutrition_facts.protein < Dec(5, 0)
        IN  /\ transPresent => health.status = "Contains Trans Fats"
            /\ (~transPresent /\ highSugar) => health.status = "High Sugar Warning"
            /\ (~transPresent /\ ~highSugar) =>
                   /\ health.score >= 85 => health.status = "Excellent Choice"
                   /\ health.score \in 70..84 => health.status = "Good Choice"
                   /\ health.score \in 50..69 => health.status = "Average"
                   /\ health.score \in 35..49 => health.status = "Unhealthy"
                   /\ health.score < 35 => health.status = "Very Unhealthy"
            /\ nutrition_facts.trans_fat = Dec(0, 500) =>
                   health.score <= 20 /\ health.status = "Contains Trans Fats"
            /\ (nutrition_facts = SugarScenario /\ flagged_chemicals = << >>) =>
                   health.score <= 30 /\ health.status = "High Sugar Warning"

\* C8 witness: trans fat is present and the score sits in the "good" band
StatusPrecedenceWitness ==
    /\ pc = "scored"
    /\ nutrition_facts.trans_fat > Dec(0, 1)
    /\ health.score >= 70
    /\ health.status = "Contains Trans Fats"

---------------------------------------------------------------------------
(* The chemical matcher: detect_harmful_chemicals of src/app.py and the    *)
(* local check of analyze_food in src/backend/app.py.                      *)

\* chemical_name.lower() in ingredients_lower
KeyMatches(chemical_name, ingredients_lower) ==
    Contains(Lower(chemical_name), ingredients_lower)

RECURSIVE DetectFrom(_, _)
\* the loop over HARMFUL_CHEMICALS.items(), from entry i on
DetectFrom(ingredients_lower, i) ==
    IF i > NumChemicals THEN << >>
    ELSE LET entry == HARMFUL_CHEMICALS[i]
         IN  IF IsMapping(entry.details) /\ KeyMatches(entry.key, ingredients_lower)
             THEN <<FlaggedItem(entry)>> \o DetectFrom(ingredients_lower, i + 1)
             ELSE DetectFrom(ingredients_lower, i + 1)

\* not ingredients_text: None, "" and 0 are falsy
Falsy(value) ==
    \/ value.type = "NoneType"
    \/ value.type = "str" /\ value.val = << >>
    \/ value.type = "float" /\ value.val = 0

detect_harmful_chemicals(text) ==
    IF Falsy(text) \/ text.type # "str" THEN << >>
    ELSE DetectFrom(Lower(text.val), 1)

\* \w of Python's re, on the characters the model uses
IsWordChar(c) ==
    \/ IndexIn(c, UPPER) > 0
    \/ IndexIn(c, LOWER) > 0
    \/ c \in DIGITS
    \/ c = "_"

\* \b at the gap before position i (1-based) of text
WordBoundary(text, i) ==
    LET before == i - 1 \in 1..Len(text) /\ IsWordChar(text[i - 1])
        after  == i \in 1..Len(text) /\ IsWordChar(text[i])
    IN  before # after

\* re.search(r'\b' + re.escape(key) + r'\b', ingredients_text)
WordSearch(key, text) ==
    \E i \in 1..(Len(text) + 1) :
        /\ OccursAt(key, text, i)
        /\ WordBoundary(text, i)
        /\ WordBoundary(text, i + Len(key))

RECURSIVE BackendLocalCheck(_, _)
\* analyze_food, Layer 2: the info of every entry whose key is found
BackendLocalCheck(text, i) ==
    IF i > NumChemicals THEN << >>
    ELSE IF WordSearch(HARMFUL_CHEMICALS[i].key, text)
         THEN <<HARMFUL_CHEMICALS[i].details>> \o BackendLocalCheck(text, i + 1)
         ELSE BackendLocalCheck(text, i + 1)

\* the ingredient listings: up to MaxTokens ingredients separated by ", "
MaxTokens == 3

IngredientNames ==
    { <<"c", "a", "n", "e", " ", "s", "u", "g", "a", "r">>,
      <<"S", "e", "a", " ", "S", "a", "l", "t">>,
      <<"m", "a", "l", "t">>,
      <<"g", "a", "r">>,
      <<"E", "1", "0", "2">>,
      <<"e", "-", "6", "2", "1">> }

RECURSIVE JoinIngredients(_)
JoinIngredients(names) ==
    IF names = << >> THEN << >>
    ELSE IF Len(names) = 1 THEN names[1]
    ELSE names[1] \o <<",", " ">> \o JoinIngredients(Tail(names))

IngredientTexts ==
    { PyStr(JoinIngredients(names)) :
        names \in UNION { [1..n -> IngredientNames] : n \in 0..MaxTokens } }

---------------------------------------------------------------------------
(* generate_disease_warnings of src/app.py.                                *)

\* the characters of the model in code-point order
ASCII == <<" ", ",", "-">> \o <<"0", "1", "2", "3", "4", "5", "6", "7", "8", "9">> \o UPPER \o <<"_">> \o LOWER

Ord(c) == IndexIn(c, ASCII)

RECURSIVE StrLess(_, _)
\* Python's a < b on strings: by code point, a proper prefix first
StrLess(a, b) ==
    IF b = << >> THEN FALSE
    ELSE IF a = << >> THEN TRUE
    ELSE IF Ord(Head(a)) # Ord(Head(b)) THEN Ord(Head(a)) < Ord(Head(b))
    ELSE StrLess(Tail(a), Tail(b))

RECURSIVE SortedList(_)
\* sorted(list(S)) for a set S of strings
SortedList(S) ==
    IF S = {} THEN << >>
    ELSE LET least == CHOOSE x \in S : \A y \in S \ {x} : StrLess(x, y)
         IN  <<least>> \o SortedList(S \ {least})

CANCER_RISK         == <<"C", "a", "n", "c", "e", "r", " ", "R", "i", "s", "k">>
DIABETES_RISK       == <<"D", "i", "a", "b", "e", "t", "e", "s", " ", "R", "i", "s", "k">>
HEART_DISEASE       == <<"H", "e", "a", "r", "t", " ", "D", "i", "s", "e", "a", "s", "e">>
OBESITY_RISK        == <<"O", "b", "e", "s", "i", "t", "y", " ", "R", "i", "s", "k">>
ALLERGIC_REACTIONS  == <<"A", "l", "l", "e", "r", "g", "i", "c", " ", "R", "e", "a", "c", "t", "i", "o", "n", "s">>
KIDNEY_ISSUES       == <<"K", "i", "d", "n", "e", "y", " ", "I", "s", "s", "u", "e", "s">>
LIVER_DAMAGE        == <<"L", "i", "v", "e", "r", " ", "D", "a", "m", "a", "g", "e">>
HIGH_BLOOD_PRESSURE == <<"H", "i", "g", "h", " ", "B", "l", "o", "o", "d", " ", "P", "r", "e", "s", "s", "u", "r", "e">>
HIGH_CHOLESTEROL    == <<"H", "i", "g", "h", " ", "C", "h", "o", "l", "e", "s", "t", "e", "r", "o", "l">>

\* the keyword tests on a chemical's cause: any keyword adds the label
CauseRules ==
    << [keywords |-> {<<"c", "a", "n", "c", "e", "r">>, <<"c", "a", "r", "c", "i", "n", "o", "g", "e", "n">>},
        label |-> CANCER_RISK],
       [keywords |-> {<<"d", "i", "a", "b", "e", "t", "e", "s">>, <<"b", "l", "o", "o", "d", " ", "s", "u", "g", "a", "r">>},
        label |-> DIABETES_RISK],
       [keywords |-> {<<"h", "e", "a", "r", "t">>, <<"c", "a", "r", "d", "i", "o", "v", "a", "s", "c", "u", "l", "a", "r">>},
        label |-> HEART_DISEASE],
       [keywords |-> {<<"o", "b", "e", "s", "i", "t", "y">>, <<"w", "e", "i", "g", "h", "t", " ", "g", "a", "i", "n">>},
        label |-> OBESITY_RISK],
       [keywords |-> {<<"a", "l", "l", "e", "r", "g">>}, label |-> ALLERGIC_REACTIONS],
       [keywords |-> {<<"k", "i", "d", "n", "e", "y">>}, label |-> KIDNEY_ISSUES],
       [keywords |-> {<<"l", "i", "v", "e", "r">>}, label |-> LIVER_DAMAGE] >>

\* the warnings one chemical adds; chemical.get('cause', '').lower()
CauseWarnings(chemical) ==
    LET cause == Lower(IF "cause" \in DOMAIN chemical THEN chemical.cause ELSE << >>)
    IN  { CauseRules[r].label : r \in { q \in 1..Len(CauseRules) :
              \E kw \in CauseRules[q].keywords : Contains(kw, cause) } }

\* the warnings from the nutrition thresholds
NutritionWarnings(nf) ==
       (IF NfGet(nf, "trans_fat") > Dec(0, 100) THEN {HEART_DISEASE} ELSE {})
    \cup (IF NfGet(nf, "sugars") > Dec(25, 0) THEN {DIABETES_RISK, OBESITY_RISK} ELSE {})
    \cup (IF NfGet(nf, "sodium") > Dec(1500, 0)
          THEN {HIGH_BLOOD_PRESSURE, HEART_DISEASE} ELSE {})
    \cup (IF NfGet(nf, "saturated_fat") > Dec(10, 0)
          THEN {HIGH_CHOLESTEROL, HEART_DISEASE} ELSE {})

\* the set built by the two halves of generate_disease_warnings
WarningSet(chems, nf) ==
    UNION { CauseWarnings(chems[k]) : k \in 1..Len(chems) } \cup NutritionWarnings(nf)

RECURSIVE ListInOrder(_, _)
\* the mutant of generate_disease_warnings: the labels listed as they are
\* added, unsorted, a label once for every chemical that implies it
ListInOrder(chems, nf) ==
    IF chems = << >> THEN SortedList(NutritionWarnings(nf))
    ELSE SortedList(CauseWarnings(Head(chems))) \o ListInOrder(Tail(chems), nf)

generate_disease_warnings(chems, nf) == SortedList(WarningSet(chems, nf))

---------------------------------------------------------------------------
(* The matcher and the warning aggregator of src/app.py applied to an      *)
(* ingredient listing and a profile.                                       *)
WarningProfiles ==
    [ sugars : {0, Dec(28, 0)}, saturated_fat : {Dec(1, 0), Dec(12, 0)},
      trans_fat : {0, Dec(0, 200)}, sodium : {Dec(0, 100), Dec(2000, 0)} ]

InitMatch ==
    /\ pc = "listing"
    /\ ingredients_text \in IngredientTexts \cup {PyNone, PyNum(Dec(1, 0))}
    /\ nutrition_facts \in WarningProfiles
    /\ flagged_chemicals = << >>
    /\ disease_warnings = << >>
    /\ health = NoValue
    /\ IdleFda
    /\ IdleRequest

\* flagged_chemicals = detect_harmful_chemicals(ingredients_text)
DetectHarmfulChemicals ==
    /\ pc = "listing"
    /\ flagged_chemicals' = detect_harmful_chemicals(ingredients_text)
    /\ pc' = "detected"
    /\ UNCHANGED <<nutrition_facts, health, ingredients_text, disease_warnings,
                   fdaVars, requestVars>>

\* disease_warnings = generate_disease_warnings(flagged_chemicals, nutrition_facts)
GenerateDiseaseWarnings ==
    /\ pc = "detected"
    /\ disease_warnings' = generate_disease_warnings(flagged_chemicals, nutrition_facts)
    /\ pc' = "warned"
    /\ UNCHANGED <<nutrition_facts, health, ingredients_text, flagged_chemicals,
                   fdaVars, requestVars>>

NextMatch == DetectHarmfulChemicals \/ GenerateDiseaseWarnings

SpecMatch == InitMatch /\ [][NextMatch]_vars

\* name occurs in text as a whole word or whole phrase: at an occurrence, no
\* letter, digit or underscore touches it on either side
WholeWordOccurrence(name, text) ==
    \E i \in 1..Len(text) :
        /\ OccursAt(name, text, i)
        /\ (i = 1 \/ ~IsWordChar(text[i - 1]))
        /\ (i + Len(name) > Len(text) \/ ~IsWordChar(text[i + Len(name)]))

\* C4: the matcher flags a registered name only when the name occurs in the
\* ingredient text as a whole word or whole phrase, never as a fragment of a
\* longer word
NoFragmentMatch ==
    pc = "detected" =>
        \A k \in 1..Len(flagged_chemicals) :
            WholeWordOccurrence(Lower(flagged_chemicals[k].name),
                                Lower(ingredients_text.val))

---------------------------------------------------------------------------
(* check_fda_adverse_events: the lookup against the adverse-event          *)
(* endpoint, in src/app.py (memoized by lru_cache) and in                  *)
(* src/backend/app.py (not memoized).                                      *)

RECURSIVE StripLeft(_)
StripLeft(str) ==
    IF str # << >> /\ Head(str) = " " THEN StripLeft(Tail(str)) ELSE str

RECURSIVE StripRight(_)
StripRight(str) ==
    IF str # << >> /\ str[Len(str)] = " "
    THEN StripRight(SubSeq(str, 1, Len(str) - 1)) ELSE str

\* str.strip(); the only whitespace of the model is the space
Strip(str) == StripRight(StripLeft(str))

IsLowerLetter(c) == IndexIn(c, LOWER) > 0

\* re.sub(r'[^a-z\s]', '', name).strip()
CleanName(name) == Strip(SelectSeq(name, LAMBDA c : IsLowerLetter(c) \/ c = " "))

\* clean_name.replace(" ", "+")
SearchTerm(clean_name) ==
    [i \in 1..Len(clean_name) |-> IF clean_name[i] = " " THEN "+" ELSE clean_name[i]]

\* what the endpoint does with one request
FdaOutcomes ==
    { "timeout",             \* no answer within the timeout
      "connection_error",    \* the connection fails
      "http_error",          \* a 4xx or 5xx status
      "invalid_json",        \* the body is no JSON
      "not_an_object",       \* the body is JSON but no object
      "total_not_a_number",  \* meta.results.total is a string
      "no_reports",          \* total is 0 or absent
      "reports" }            \* total is positive

FdaFailures == FdaOutcomes \ {"no_reports", "reports"}

\* the exception the try block raises for an outcome; "none" when it ends
FdaException(outcome) ==
    CASE outcome = "timeout"            -> "Timeout"
      [] outcome = "connection_error"   -> "ConnectionError"
      [] outcome = "http_error"         -> "HTTPError"
      [] outcome = "invalid_json"       -> "JSONDecodeError"
      [] outcome = "not_an_object"      -> "AttributeError"
      [] outcome = "total_not_a_number" -> "TypeError"
      [] OTHER                          -> "none"

\* the classes of requests.exceptions.RequestException
RequestExceptions == {"Timeout", "ConnectionError", "HTTPError", "JSONDecodeError"}

Returned(flagged, message) == [raised |-> FALSE, flagged |-> flagged, message |-> message]
Raised(exception) == [raised |-> TRUE, exception |-> exception]

\* the mutant of AppFdaRequest: the last handler, except Exception, left out
AppFdaRequestNoCatchAll(outcome) ==
    LET exc == FdaException(outcome)
    IN  IF exc = "none"
        THEN IF outcome = "reports"
             THEN Returned(TRUE, "FDA Adverse Event Reports: total")
             ELSE Returned(FALSE, "")
        ELSE IF exc = "Timeout" THEN Returned(FALSE, "FDA API timeout")
        ELSE IF exc \in RequestExceptions THEN Returned(FALSE, "FDA API error")
        ELSE Raised(exc)

\* src/app.py: the try block and its three handlers
AppFdaRequest(outcome) ==
    LET exc == FdaException(outcome)
    IN  IF exc = "none"
        THEN IF outcome = "reports"
             THEN Returned(TRUE, "FDA Adverse Event Reports: total")
             ELSE Returned(FALSE, "")
        ELSE IF exc = "Timeout" THEN Returned(FALSE, "FDA API timeout")
        ELSE IF exc \in RequestExceptions THEN Returned(FALSE, "FDA API error")
        ELSE Returned(FALSE, "")

\* src/backend/app.py: the try block and its handler, except Exception
BackendFdaRequest(outcome) ==
    IF FdaException(outcome) = "none" /\ outcome = "reports"
    THEN Returned(TRUE, "FDA Adverse Event Reports found (total).")
    ELSE Returned(FALSE, "")

\* src/app.py: the search term sent for an ingredient, << >> when the function
\* returns before the request
AppFdaTerm(ingredient_name) ==
    IF Falsy(ingredient_name) \/ ingredient_name.type # "str" THEN << >>
    ELSE SearchTerm(CleanName(Lower(ingredient_name.val)))

\* src/backend/app.py: the same; the name is a str and is not lower-cased here
BackendFdaTerm(ingredient_name) == SearchTerm(CleanName(ingredient_name))

\* lru_cache(maxsize=500) of src/app.py, scaled down
FdaCacheSize == 2
MaxLookups == 3

\* position of key in the cache, 0 when absent
CacheIndex(cache, key) ==
    IF \E i \in 1..Len(cache) : cache[i].key = key
    THEN CHOOSE i \in 1..Len(cache) : cache[i].key = key
    ELSE 0

\* a hit moves the entry to the most recent end
CacheTouch(cache, i) ==
    SubSeq(cache, 1, i - 1) \o SubSeq(cache, i + 1, Len(cache)) \o <<cache[i]>>

\* the mutant of CacheInsert: a None result is not kept
CacheInsertSkipNone(cache, key, value, maxsize) ==
    IF value = PyNone THEN cache
    ELSE LET grown == Append(cache, [key |-> key, value |-> value])
         IN  IF Len(grown) > maxsize THEN Tail(grown) ELSE grown

\* a miss appends the entry and, over capacity, drops the least recent one
CacheInsert(cache, key, value, maxsize) ==
    LET grown == Append(cache, [key |-> key, value |-> value])
    IN  IF Len(grown) > maxsize THEN Tail(grown) ELSE grown

\* the arguments check_fda_adverse_events is called with
LookupNames ==
    { PyStr(<<"g", "a", "r">>), PyStr(<<"C", "a", "n", "e", " ", "S", "u", "g", "a", "r">>),
      PyStr(<<"e", "-", "6", "2", "1">>), PyStr(<<"1", "0", "2">>), PyNone }

InitFda ==
    /\ pc = "lookup"
    /\ IdleFda
    /\ IdleRequest
    /\ nutrition_facts = NoValue
    /\ flagged_chemicals = << >>
    /\ health = NoValue
    /\ ingredients_text = PyNone
    /\ disease_warnings = << >>

\* src/app.py: a call answered by lru_cache
AppFdaCacheHit(name) ==
    /\ pc = "lookup"
    /\ Len(lookups) < MaxLookups
    /\ CacheIndex(fda_cache, name) > 0
    /\ LET i == CacheIndex(fda_cache, name)
       IN  /\ fda_result' = [ingredient |-> name, outcome |-> "none",
                             result |-> fda_cache[i].value]
           /\ fda_cache' = CacheTouch(fda_cache, i)
           /\ lookups' = Append(lookups, [ingredient |-> name, called |-> FALSE,
                                          result |-> fda_cache[i].value])
    /\ UNCHANGED <<pc, pipelineVars, requestVars, fda_calls>>

\* src/app.py: a call that runs the function body
AppFdaCacheMiss(name, outcome) ==
    /\ pc = "lookup"
    /\ Len(lookups) < MaxLookups
    /\ CacheIndex(fda_cache, name) = 0
    /\ LET term   == AppFdaTerm(name)
           called == term # << >>
           result == IF called THEN AppFdaRequest(outcome) ELSE Returned(FALSE, "")
       IN  /\ outcome = "no_reports" \/ called
           /\ fda_calls' = IF called THEN Append(fda_calls, term) ELSE fda_calls
           /\ fda_result' = [ingredient |-> name,
                             outcome |-> IF called THEN outcome ELSE "none",
                             result |-> result]
           \* lru_cache stores what the function returns, not what it raises
           /\ fda_cache' = IF result.raised THEN fda_cache
                           ELSE CacheInsert(fda_cache, name, result, FdaCacheSize)
           /\ lookups' = Append(lookups, [ingredient |-> name, called |-> called,
                                          result |-> result])
    /\ UNCHANGED <<pc, pipelineVars, requestVars>>

NextFda ==
    \E name \in LookupNames :
        \/ AppFdaCacheHit(name)
        \/ \E outcome \in FdaOutcomes : AppFdaCacheMiss(name, outcome)

SpecFda == InitFda /\ [][NextFda]_vars

---------------------------------------------------------------------------
(* analyze_food of src/backend/app.py.  The handler runs in steps, one per *)
(* outbound call: the product request, then one Layer 3 lookup for each    *)
(* ingredient token, then the score and the response.                      *)

RECURSIVE Split(_, _)
\* str.split(sep) for a one-character separator
Split(str, sep) ==
    IF \E i \in 1..Len(str) : str[i] = sep
    THEN LET i == CHOOSE k \in 1..Len(str) :
                      str[k] = sep /\ \A j \in 1..(k - 1) : str[j] # sep
         IN  <<SubSeq(str, 1, i - 1)>> \o Split(SubSeq(str, i + 1, Len(str)), sep)
    ELSE <<str>>

\* [item.strip() for item in ingredients_text.split(',') if item.strip()]
IngredientsList(text) ==
    LET parts == Split(text, ",")
        kept  == SelectSeq(parts, LAMBDA item : Strip(item) # << >>)
    IN  [k \in 1..Len(kept) |-> Strip(kept[k])]

\* {item.get('name', '').lower() for item in flagged_chemicals}, taken before
\* the Layer 3 loop: the local matches of the listing
CurrentFlaggedNames(text) ==
    LET matched == BackendLocalCheck(text, 1)
    IN  { Lower(DetailsGet(matched[k], "name", << >>)) : k \in 1..Len(matched) }

\* the diseases_to_avoid of the local matches, as the set the loop builds
BackendWarnings(matched) ==
    UNION { LET diseases == DetailsGet(matched[k], "diseases_to_avoid", << >>)
            IN  { diseases[d] : d \in 1..Len(diseases) } : k \in 1..Len(matched) }

\* score_map.get(nutriscore, score) after .lower(); 100 without a grade
NutriscoreBase(grade) ==
    IF Falsy(grade) THEN 100
    ELSE LET g == Lower(grade.val)
         IN  CASE g = <<"a">> -> 90
               [] g = <<"b">> -> 75
               [] g = <<"c">> -> 50
               [] g = <<"d">> -> 25
               [] g = <<"e">> -> 10
               [] OTHER -> 100

\* score = max(0, min(100, score - len(flagged_chemicals) * 10))
BackendScore(grade, chems) ==
    Max(0, Min(100, NutriscoreBase(grade) - Len(chems) * 10))

BackendIngredientNames ==
    { <<"c", "a", "n", "e", " ", "s", "u", "g", "a", "r">>,
      <<"g", "a", "r">>,
      <<"S", "u", "g", "a", "r">>,
      <<"1", "0", "2">> }

BackendProducts ==
    { [ingredients_text |-> PyStr(JoinIngredients(names)), nutriscore_grade |-> grade] :
        names \in UNION { [1..n -> BackendIngredientNames] : n \in 0..MaxTokens },
        grade \in {PyNone, PyStr(<<"E">>)} }

BackendBarcodes == { <<"1", "2", "3", "4", "5", "6", "7", "8">>, <<"1", "2", "a", "b", "5", "6", "7", "8">> }

\* what the product data source does with one request
ProductOutcomes == {"found", "not_found", "timeout", "connection_error", "http_error"}

InitBackend ==
    /\ pc = "b_request"
    /\ barcode \in BackendBarcodes
    /\ product = NoValue
    /\ ingredients_list = << >>
    /\ fda_idx = 0
    /\ response = NoValue
    /\ product_cache = << >>
    /\ product_calls = << >>
    /\ requests = << >>
    /\ IdleFda
    /\ nutrition_facts = NoValue
    /\ flagged_chemicals = << >>
    /\ health = NoValue
    /\ ingredients_text = PyNone
    /\ disease_warnings = << >>

\* requests.get(...) raises, or raise_for_status() does: the handler of
\* RequestException answers 500 with the exception's text
BackendFetchFails(outcome) ==
    /\ pc = "b_request"
    /\ outcome \in {"timeout", "connection_error", "http_error"}
    /\ product_calls' = Append(product_calls, barcode)
    /\ response' = [code |-> 500, status |-> "error",
                    message |-> "Could not connect to the external API or network error",
                    exception |-> outcome]
    /\ pc' = "b_done"
    /\ UNCHANGED <<pipelineVars, fdaVars, barcode, product, ingredients_list, fda_idx,
                   product_cache, requests>>

\* data['status'] != 1
BackendNotFound ==
    /\ pc = "b_request"
    /\ product_calls' = Append(product_calls, barcode)
    /\ response' = [code |-> 404, status |-> "error",
                    message |-> "Product not found in the Open Food Facts database."]
    /\ pc' = "b_done"
    /\ UNCHANGED <<pipelineVars, fdaVars, barcode, product, ingredients_list, fda_idx,
                   product_cache, requests>>

\* the product is found: the listing is lower-cased and split, Layer 2 runs.
\* A listing that is no str, or a matched entry that is no mapping, raises
\* AttributeError, which the handler does not catch: Flask answers 500.
BackendLocalMatch(found) ==
    /\ pc = "b_request"
    /\ product_calls' = Append(product_calls, barcode)
    /\ product' = found
    /\ IF /\ found.ingredients_text.type = "str"
          /\ LET matched == BackendLocalCheck(Lower(found.ingredients_text.val), 1)
             IN  \A k \in 1..Len(matched) : IsMapping(matched[k])
       THEN LET text == Lower(found.ingredients_text.val)
            IN  /\ ingredients_text' = PyStr(text)
                /\ ingredients_list' = IngredientsList(text)
                /\ flagged_chemicals' = BackendLocalCheck(text, 1)
                /\ disease_warnings' = BackendWarnings(BackendLocalCheck(text, 1))
                /\ fda_idx' = 1
                /\ pc' = "b_layer3"
                /\ UNCHANGED response
       ELSE /\ response' = [code |-> 500, status |-> "error",
                            message |-> "Internal Server Error"]
            /\ pc' = "b_done"
            /\ UNCHANGED <<ingredients_text, ingredients_list, flagged_chemicals,
                           disease_warnings, fda_idx>>
    /\ UNCHANGED <<nutrition_facts, health, fdaVars, barcode, product_cache,
                   requests>>

\* Layer 3, an ingredient that is in current_flagged_names: no lookup
BackendSkipFlagged ==
    /\ pc = "b_layer3"
    /\ fda_idx <= Len(ingredients_list)
    /\ ingredients_list[fda_idx] \in CurrentFlaggedNames(ingredients_text.val)
    /\ fda_idx' = fda_idx + 1
    /\ UNCHANGED <<pc, pipelineVars, fdaVars, barcode, product, ingredients_list,
                   response, product_cache, product_calls, requests>>

\* Layer 3, any other ingredient: check_fda_adverse_events(ingredient), and the
\* ingredient is appended to flagged_chemicals when the lookup flags it
BackendFdaLookup(outcome) ==
    /\ pc = "b_layer3"
    /\ fda_idx <= Len(ingredients_list)
    /\ ingredients_list[fda_idx] \notin CurrentFlaggedNames(ingredients_text.val)
    /\ LET ingredient == ingredients_list[fda_idx]
           term       == BackendFdaTerm(ingredient)
           called     == term # << >>
           result     == IF called THEN BackendFdaRequest(outcome)
                         ELSE Returned(FALSE, "")
       IN  \* without a request there is one outcome, not one per endpoint outcome
           /\ outcome = "no_reports" \/ called
           /\ fda_calls' = IF called THEN Append(fda_calls, term) ELSE fda_calls
           /\ fda_result' = [ingredient |-> PyStr(ingredient),
                             outcome |-> IF called THEN outcome ELSE "none",
                             result |-> result]
           /\ lookups' = Append(lookups, [ingredient |-> PyStr(ingredient),
                                          called |-> called, result |-> result])
           /\ IF result.raised
              THEN \* an exception leaves the loop and the handler: Flask answers 500
                   /\ response' = [code |-> 500, status |-> "error",
                                   message |-> "Internal Server Error"]
                   /\ pc' = "b_done"
                   /\ UNCHANGED <<flagged_chemicals, fda_idx>>
              ELSE /\ flagged_chemicals' =
                          IF result.flagged
                          THEN Append(flagged_chemicals,
                                      [name |-> ingredient, cause |-> result.message,
                                       avoid |-> "Caution advised. Publicly reported adverse events exist.",
                                       diseases_to_avoid |-> << >>])
                          ELSE flagged_chemicals
                   /\ fda_idx' = fda_idx + 1
                   /\ UNCHANGED <<pc, response>>
    /\ UNCHANGED <<nutrition_facts, health, ingredients_text, disease_warnings,
                   fda_cache, barcode, product, ingredients_list, product_cache,
                   product_calls, requests>>

\* after the loop: the score and the success response
BackendRespond ==
    /\ pc = "b_layer3"
    /\ fda_idx > Len(ingredients_list)
    /\ response' = [code |-> 200, status |-> "success",
                    flagged_chemicals |-> flagged_chemicals,
                    health_score |-> BackendScore(product.nutriscore_grade,
                                                  flagged_chemicals),
                    disease_warnings |-> SortedList(disease_warnings)]
    /\ pc' = "b_done"
    /\ UNCHANGED <<pipelineVars, fdaVars, barcode, product, ingredients_list, fda_idx,
                   product_cache, product_calls, requests>>

NextBackend ==
    \/ \E outcome \in ProductOutcomes : BackendFetchFails(outcome)
    \/ BackendNotFound
    \/ \E found \in BackendProducts : BackendLocalMatch(found)
    \/ BackendSkipFlagged
    \/ \E outcome \in FdaOutcomes : BackendFdaLookup(outcome)
    \/ BackendRespond

SpecBackend == InitBackend /\ [][NextBackend]_vars

---------------------------------------------------------------------------
(* safe_float and extract_nutrition_facts of src/app.py.                   *)

DigitValue(c) == IndexIn(c, <<"0", "1", "2", "3", "4", "5", "6", "7", "8", "9">>) - 1

AllDigits(str) == str # << >> /\ \A i \in 1..Len(str) : str[i] \in DIGITS

RECURSIVE DigitsValue(_)
\* the number a string of digits denotes
DigitsValue(str) ==
    IF str = << >> THEN 0
    ELSE DigitsValue(SubSeq(str, 1, Len(str) - 1)) * 10 + DigitValue(str[Len(str)])

RECURSIVE Pow10(_)
Pow10(n) == IF n = 0 THEN 1 ELSE 10 * Pow10(n - 1)

\* float(str) for the decimal strings of the model: surrounding spaces, a sign,
\* digits, and up to six digits after a point; anything else raises ValueError
ParseFloat(str) ==
    LET t        == Strip(str)
        negative == t # << >> /\ Head(t) = "-"
        signed   == t # << >> /\ Head(t) \in {"-", "+"}
        body     == IF signed THEN Tail(t) ELSE t
        parts    == Split(body, ".")
        whole    == parts[1]
        frac     == IF Len(parts) = 2 THEN parts[2] ELSE <<"0">>
        valid    == /\ Len(parts) <= 2
                    /\ AllDigits(whole)
                    /\ AllDigits(frac)
                    /\ Len(frac) <= 6
        value    == DigitsValue(whole) * 1000000
                    + DigitsValue(frac) * Pow10(6 - Len(frac))
    IN  IF ~valid THEN [error |-> "ValueError"]
        ELSE [value |-> IF negative THEN 0 - value ELSE value]

\* safe_float(value, default=0.0): float(value), or 0.0 for None and for a
\* value float() rejects; a mapping holds no key for a missing value, and
\* nutriments.get gives None
\* a value of another type (a list, a mapping) raises TypeError
safe_float(value) ==
    IF value.type = "NoneType" THEN 0
    ELSE IF value.type = "float" THEN value.val
    ELSE IF value.type = "str"
         THEN IF "error" \in DOMAIN ParseFloat(value.val) THEN 0
              ELSE ParseFloat(value.val).value
    ELSE 0

\* nutriments.get(key)
NutrimentGet(nutriments, key) ==
    IF key \in DOMAIN nutriments THEN nutriments[key] ELSE PyNone

\* the nutrition keys and the source field each is read from
NutritionFields ==
    [ calories      |-> "energy-kcal_100g",
      protein       |-> "proteins_100g",
      carbohydrates |-> "carbohydrates_100g",
      sugars        |-> "sugars_100g",
      added_sugars  |-> "added-sugars_100g",
      fiber         |-> "fiber_100g",
      fat           |-> "fat_100g",
      saturated_fat |-> "saturated-fat_100g",
      trans_fat     |-> "trans-fat_100g",
      cholesterol   |-> "cholesterol_100g",
      sodium        |-> "sodium_100g",
      potassium     |-> "potassium_100g",
      calcium       |-> "calcium_100g",
      iron          |-> "iron_100g",
      vitamin_c     |-> "vitamin-c_100g" ]

NutritionKeys == DOMAIN NutritionFields

\* product.get('nutriments', {}); a product holds nutriments as a mapping, as
\* None, or not at all
NutrimentsOf(prod) ==
    IF "nutriments" \in DOMAIN prod THEN prod.nutriments ELSE [mapping |-> << >>]

\* extract_nutrition_facts(product); nutriments.get on None raises
\* AttributeError
extract_nutrition_facts(prod) ==
    LET nutriments == NutrimentsOf(prod)
    IN  IF "mapping" \notin DOMAIN nutriments THEN Raised("AttributeError")
        ELSE [ key \in NutritionKeys |->
                 safe_float(NutrimentGet(nutriments.mapping, NutritionFields[key])) ]

\* the values the product data source holds for a nutrient
RawValues ==
    { PyNone, PyNum(0), PyNum(Dec(3, 500)), PyNum(0 - Dec(2, 0)),
      PyStr(<<"3", ".", "5">>), PyStr(<<" ", "1", "2", " ">>), PyStr(<<"-", "1", ".", "5">>),
      PyStr(<<"a", "b", "c">>), PyStr(<<"1", ".", "2", ".", "3">>), PyStr(<< >>),
      [type |-> "list"] }

\* marks a field the record does not hold
Absent == [type |-> "absent"]

SourceFields == { NutritionFields[key] : key \in NutritionKeys }

\* the mapping that holds assign[f] for every field f it is not Absent for
MappingOf(assign) ==
    [ f \in { g \in DOMAIN assign : assign[g] # Absent } |-> assign[f] ]

\* the records: every field holds one value, or none, and one field another
RawProducts ==
    { [nutriments |-> [mapping |-> MappingOf([f \in SourceFields |->
                                                IF f = odd THEN value ELSE base])]] :
        base \in {Absent, PyNone, PyNum(Dec(3, 500))},
        value \in RawValues \cup {Absent},
        odd \in SourceFields }
    \cup { [nutriments |-> PyNone], [product_name |-> "no nutriments"] }

InitExtract ==
    /\ pc = "raw"
    /\ product \in RawProducts
    /\ barcode = << >>
    /\ ingredients_list = << >>
    /\ fda_idx = 0
    /\ response = NoValue
    /\ product_cache = << >>
    /\ product_calls = << >>
    /\ requests = << >>
    /\ IdleFda
    /\ nutrition_facts = NoValue
    /\ flagged_chemicals = << >>
    /\ health = NoValue
    /\ ingredients_text = PyNone
    /\ disease_warnings = << >>

\* nutrition_facts = extract_nutrition_facts(product)
ExtractNutritionFacts ==
    /\ pc = "raw"
    /\ nutrition_facts' = extract_nutrition_facts(product)
    /\ pc' = "extracted"
    /\ UNCHANGED <<flagged_chemicals, health, ingredients_text, disease_warnings,
                   fdaVars, requestVars>>

NextExtract == ExtractNutritionFacts

SpecExtract == InitExtract /\ [][NextExtract]_vars

---------------------------------------------------------------------------
(* analyze_product of src/app.py: validate_barcode, the memoized           *)
(* fetch_product_from_openfoodfacts, then the analysis.  A request is one  *)
(* step: its only outbound call is the product request.                    *)

validate_barcode(code) ==
    IF code = << >> THEN [valid |-> FALSE, result |-> "Barcode is required"]
    ELSE LET stripped == Strip(code)
         IN  IF ~AllDigits(stripped)
             THEN [valid |-> FALSE, result |-> "Barcode must contain only digits"]
             ELSE IF Len(stripped) < 8 \/ Len(stripped) > 14
             THEN [valid |-> FALSE,
                   result |-> "Barcode must be between 8 and 14 digits"]
             ELSE [valid |-> TRUE, result |-> stripped]

\* what fetch_product_from_openfoodfacts returns for an outcome of the request:
\* data.get('product') when status is 1, None otherwise and on RequestException
FetchResult(outcome, found) == IF outcome = "found" THEN found ELSE PyNone

\* not product
ProductMissing(prod) ==
    \/ DOMAIN prod = {}
    \/ "type" \in DOMAIN prod /\ prod.type = "NoneType"

\* product.get(field, default)
ProductGet(prod, field, default) ==
    IF field \in DOMAIN prod THEN prod[field] ELSE default

NOT_FOUND_MESSAGE ==
    "Product not found in Open Food Facts database. Try another barcode."

\* the response of analyze_product once the product is fetched
AnalysisResponse(code, prod) ==
    IF ProductMissing(prod)
    THEN [code |-> 404, status |-> "error", message |-> NOT_FOUND_MESSAGE]
    ELSE LET text    == ProductGet(prod, "ingredients_text", PyStr(<< >>))
             flagged == detect_harmful_chemicals(text)
             facts   == extract_nutrition_facts(prod)
         IN  IF "raised" \in DOMAIN facts
             THEN \* the errorhandler(500) of the application
                  [code |-> 500, status |-> "error",
                   message |-> "Internal server error"]
             ELSE [code |-> 200, status |-> "success", barcode |-> code,
                   product_name |-> ProductGet(prod, "product_name", "Unknown Product"),
                   health_score |-> calculate_health_score(facts, flagged).score,
                   health_status |-> calculate_health_score(facts, flagged).status,
                   ingredients_text |-> text,
                   flagged_chemicals |-> flagged,
                   disease_warnings |-> generate_disease_warnings(flagged, facts),
                   nutrition_facts |-> facts]

\* lru_cache(maxsize=1000) of src/app.py, scaled down
ProductCacheSize == 1
MaxRequests == 3

Barcodes ==
    { <<"1", "2", "3", "4", "5", "6", "7", "8">>,
      <<" ", "0", "1", "2", "3", "4", "5", "6", "7", "8", "9", "0", "1", "2", " ">>,
      <<"1", "2", "3", "4", "5", "6", "7">>,
      <<"1", "2", "3", "4", "5", "6", "7", "8", "9", "0", "1", "2", "3", "4", "5">>,
      <<"1", "2", "a", "b", "5", "6", "7", "8">>,
      << >> }

\* the products the data source answers with
CatalogProducts ==
    { [ product_name |-> "Cola",
        ingredients_text |-> PyStr(<<"C", "a", "n", "e", " ", "S", "u", "g", "a", "r", ",", " ", "m", "a", "l", "t">>),
        nutriments |-> [mapping |->
            ("sugars_100g" :> PyNum(Dec(35, 0))) @@
            ("trans-fat_100g" :> PyStr(<<"0", ".", "5">>)) @@
            ("sodium_100g" :> PyNum(Dec(2000, 0))) @@
            ("proteins_100g" :> PyNone)] ],
      [ ingredients_text |-> PyNone,
        nutriments |-> [mapping |->
            ("proteins_100g" :> PyNum(Dec(12, 0))) @@
            ("fiber_100g" :> PyNum(Dec(9, 0)))] ],
      [ product_name |-> "Broken", nutriments |-> PyNone ] }

InitApp ==
    /\ pc = "serving"
    /\ IdleRequest
    /\ IdleFda
    /\ nutrition_facts = NoValue
    /\ flagged_chemicals = << >>
    /\ health = NoValue
    /\ ingredients_text = PyNone
    /\ disease_warnings = << >>

\* the part of a response that tells an outcome from another
Outcome(resp) == [code |-> resp.code, status |-> resp.status,
                  message |-> IF "message" \in DOMAIN resp THEN resp.message ELSE ""]

\* a request whose barcode validate_barcode rejects: 400, and no product request
AppRejectBarcode(code) ==
    /\ pc = "serving"
    /\ Len(requests) < MaxRequests
    /\ ~validate_barcode(code).valid
    /\ barcode' = code
    /\ response' = [code |-> 400, status |-> "error",
                    message |-> validate_barcode(code).result]
    /\ requests' = Append(requests, [barcode |-> code, cause |-> "invalid_barcode",
                                     outcome |-> Outcome(response')])
    /\ UNCHANGED <<pc, pipelineVars, fdaVars, product, ingredients_list, fda_idx,
                   product_cache, product_calls>>

\* a request whose cleaned barcode is in the lru_cache: no product request
AppFetchCached(code) ==
    /\ pc = "serving"
    /\ Len(requests) < MaxRequests
    /\ validate_barcode(code).valid
    /\ CacheIndex(product_cache, validate_barcode(code).result) > 0
    /\ LET cleaned == validate_barcode(code).result
           i       == CacheIndex(product_cache, cleaned)
       IN  /\ barcode' = cleaned
           /\ product' = product_cache[i].value
           /\ product_cache' = CacheTouch(product_cache, i)
           /\ response' = AnalysisResponse(cleaned, product_cache[i].value)
    /\ requests' = Append(requests, [barcode |-> code, cause |-> "cached",
                                     outcome |-> Outcome(response')])
    /\ UNCHANGED <<pc, pipelineVars, fdaVars, ingredients_list, fda_idx, product_calls>>

\* a request that reaches the product data source
AppFetch(code, outcome, found) ==
    /\ pc = "serving"
    /\ Len(requests) < MaxRequests
    /\ validate_barcode(code).valid
    /\ CacheIndex(product_cache, validate_barcode(code).result) = 0
    /\ LET cleaned == validate_barcode(code).result
           fetched == FetchResult(outcome, found)
       IN  /\ barcode' = cleaned
           /\ product_calls' = Append(product_calls, cleaned)
           /\ product' = fetched
           /\ product_cache' = CacheInsert(product_cache, cleaned, fetched,
                                           ProductCacheSize)
           /\ response' = AnalysisResponse(cleaned, fetched)
    /\ requests' = Append(requests, [barcode |-> code, cause |-> outcome,
                                     outcome |-> Outcome(response')])
    /\ UNCHANGED <<pc, pipelineVars, fdaVars, ingredients_list, fda_idx>>

NextApp ==
    \E code \in Barcodes :
        \/ AppRejectBarcode(code)
        \/ AppFetchCached(code)
        \/ \E found \in CatalogProducts : AppFetch(code, "found", found)
        \/ \E outcome \in ProductOutcomes \ {"found"} :
               AppFetch(code, outcome, PyNone)

SpecApp == InitApp /\ [][NextApp]_vars

\* the source value of a nutrition key is missing, null or non-numeric
NoNumber(prod, key) ==
    LET raw == NutrimentGet(prod.nutriments.mapping, NutritionFields[key])
    IN  \/ raw.type \in {"NoneType", "list"}
        \/ raw.type = "str" /\ "error" \in DOMAIN ParseFloat(raw.val)

\* C10: for every raw record whose nutrient values are missing, null,
\* non-numeric or numbers of any sign, extract_nutrition_facts does not raise
\* and returns a profile with every nutrient key, every value a non-negative
\* number, and 0.0 for a missing or non-numeric source value
ProfileComplete ==
    (pc = "extracted" /\ "nutriments" \in DOMAIN product
                      /\ "mapping" \in DOMAIN product.nutriments) =>
        /\ "raised" \notin DOMAIN nutrition_facts
        /\ DOMAIN nutrition_facts = NutritionKeys
        /\ \A key \in NutritionKeys :
               /\ nutrition_facts[key] >= 0
               /\ NoNumber(product, key) => nutrition_facts[key] = 0

---------------------------------------------------------------------------
(* The programs together: the matcher, the warning aggregator and the      *)
(* nutrient extraction of src/app.py, its memoized lookup, its             *)
(* analyze_product, and analyze_food of the backend.  (The scoring run,    *)
(* SpecScore, is checked on its own.)                                      *)
Init == InitMatch \/ InitFda \/ InitBackend \/ InitExtract \/ InitApp

Next == NextMatch \/ NextFda \/ NextBackend \/ NextExtract \/ NextApp

Spec == Init /\ [][Next]_vars

\* the lookups i < j are of the same ingredient, with fewer distinct other
\* ingredients looked up in between than the cache holds
WithinCacheWindow(i, j) ==
    /\ i < j
    /\ lookups[i].ingredient = lookups[j].ingredient
    /\ Cardinality({ lookups[k].ingredient : k \in (i + 1)..(j - 1) }
                   \ {lookups[i].ingredient}) < FdaCacheSize

\* C5: the same ingredient looked up twice within the cache window costs one
\* request to the endpoint, and the second lookup returns what the first did
SameLookupOneCall ==
    \A i, j \in 1..Len(lookups) :
        WithinCacheWindow(i, j) =>
            /\ ~lookups[j].called
            /\ lookups[j].result = lookups[i].result

\* the ingredient tokens before position n that are not in current_flagged_names
TokensToLookUp(n) ==
    { k \in 1..(n - 1) :
        ingredients_list[k] \notin CurrentFlaggedNames(ingredients_text.val) }

\* C7: a lookup never propagates a failure: for every outcome of the request
\* it returns a pair, with flagged = false when the request failed, and
\* analyze_food goes on to the remaining tokens and answers
LookupNeverFails ==
    Len(lookups) > 0 =>
        /\ ~fda_result.result.raised
        /\ fda_result.outcome \in FdaFailures => ~fda_result.result.flagged
        /\ pc = "b_layer3" => Len(lookups) = Cardinality(TokensToLookUp(fda_idx))
        /\ pc = "b_done" =>
               /\ response.code = 200
               /\ Len(lookups) = Cardinality(TokensToLookUp(Len(ingredients_list) + 1))

\* C7 witness: in analyze_food a lookup after the first has just failed on a
\* malformed body, and tokens remain
LookupNeverFailsWitness ==
    /\ pc = "b_layer3"
    /\ Len(lookups) = 2
    /\ fda_result.outcome = "total_not_a_number"
    /\ fda_idx <= Len(ingredients_list)

\* C7 witness for src/app.py is reached as well: a timeout answered with a pair
AppLookupTimeoutReached ==
    /\ pc = "lookup"
    /\ Len(lookups) > 0
    /\ fda_result.outcome = "timeout"
    /\ fda_result.result = Returned(FALSE, "FDA API timeout")

StrictlyAscending(labels) ==
    \A i, j \in 1..Len(labels) : i < j => StrLess(labels[i], labels[j])

\* C9: the warning list has no duplicate label and is in ascending
\* alphabetical order, from generate_disease_warnings and from analyze_food
WarningsSortedUnique ==
    /\ pc = "warned" => StrictlyAscending(disease_warnings)
    /\ (pc = "b_done" /\ response.code = 200) =>
           StrictlyAscending(response.disease_warnings)

\* C9 witness: heart disease is implied by a chemical's cause and by two
\* nutrient thresholds, and the list has been produced
WarningsSortedUniqueWitness ==
    /\ pc = "warned"
    /\ \E k \in 1..Len(flagged_chemicals) :
           HEART_DISEASE \in CauseWarnings(flagged_chemicals[k])
    /\ nutrition_facts.trans_fat > Dec(0, 100)
    /\ nutrition_facts.saturated_fat > Dec(10, 0)
    /\ Len(disease_warnings) >= 4

\* the four failure kinds of the analysis operation
FailureKinds == {"invalid_barcode", "not_found", "timeout", "connection_error"}

\* C6: an invalid barcode, a product not found, an upstream timeout and an
\* upstream network failure are each answered with an outcome that differs
\* from the outcome of the other three
DistinctErrorOutcomes ==
    \A i, j \in 1..Len(requests) :
        (/\ requests[i].cause \in FailureKinds
         /\ requests[j].cause \in FailureKinds
         /\ requests[i].cause # requests[j].cause)
            => requests[i].outcome # requests[j].outcome

\* the registered names the Layer 2 check of analyze_food found in the listing
LocallyFlaggedKeys(text) ==
    { HARMFUL_CHEMICALS[i].key :
        i \in { k \in 1..NumChemicals : WordSearch(HARMFUL_CHEMICALS[k].key, text) } }

\* the entries of flagged_chemicals that the Layer 3 loop appended
ExternalNames(chems) ==
    { chems[k].name :
        k \in { n \in 1..Len(chems) :
                  DetailsGet(chems[n], "avoid", "") =
                      "Caution advised. Publicly reported adverse events exist." } }

\* C11: in analyze_food a token equal to a registered chemical name that the
\* local check flagged is never passed to check_fda_adverse_events, and so
\* no ingredient is in flagged_chemicals both as a local and as an external entry
LocalTokenNotLookedUp ==
    (pc \in {"b_layer3", "b_done"} /\ ingredients_text.type = "str") =>
        /\ \A i \in 1..Len(lookups) :
               lookups[i].ingredient.val \notin LocallyFlaggedKeys(ingredients_text.val)
        /\ ExternalNames(flagged_chemicals)
               \cap LocallyFlaggedKeys(ingredients_text.val) = {}

\* the base penalty the tier of a flagged chemical stands for
TierBase(chem) ==
    CASE chem.risk_level = "high" -> 15
      [] chem.risk_level = "medium" -> 10
      [] OTHER -> 5

\* the flat surcharges, all four macro hints over their limits
MaxSurcharge == 5 + 5 + 10 + 3

\* what the flagged list takes off the aggregate score of the profile
ChemicalDrop ==
    AggregateScore(nutrition_facts, << >>)
        - AggregateScore(nutrition_facts, flagged_chemicals)

\* C12: the chemical penalty is the sum over the flagged chemicals of the base
\* penalty of the tier (high 15, medium 10, other 5) plus the macro-hint
\* surcharges, capped at 40: the flagged list lowers the aggregate score by
\* at most 40 compared with the same profile and an empty list
ChemicalPenaltyCapped ==
    pc = "scored" =>
        /\ \A k \in 1..Len(flagged_chemicals) :
               ChemicalPenaltyOf(flagged_chemicals[k]) - TierBase(flagged_chemicals[k])
                   \in 0..MaxSurcharge
        /\ ChemicalDrop = Min(40, SumChemicalPenalty(flagged_chemicals))
        /\ ChemicalDrop \in 0..40

\* C12 witness: a scored list of three tiers whose penalties sum to more than 40
ChemicalPenaltyCappedWitness ==
    /\ pc = "scored"
    /\ SumChemicalPenalty(flagged_chemicals) > 40
    /\ ChemicalDrop = 40
    /\ { flagged_chemicals[k].risk_level : k \in 1..Len(flagged_chemicals) }
           = {"high", "medium", "low"}

\* a barcode of 8 to 14 digits
WellFormedBarcode(code) == AllDigits(code) /\ Len(code) \in 8..14

\* C13: the product data source is only queried with a barcode of 8 to 14
\* digits: a request whose barcode is empty, holds a non-digit or has another
\* length is answered with the validation error and makes no product request
OnlyValidBarcodesQueried ==
    /\ \A i \in 1..Len(product_calls) : WellFormedBarcode(product_calls[i])
    /\ \A i \in 1..Len(requests) :
           ~WellFormedBarcode(Strip(requests[i].barcode))
               => requests[i].outcome.code = 400
    /\ (pc = "b_done" /\ ~WellFormedBarcode(barcode)) => response.code = 400

\* the barcode a request hands to fetch_product_from_openfoodfacts
Cleaned(i) == validate_barcode(requests[i].barcode).result

\* the requests that get as far as fetch_product_from_openfoodfacts
Fetching(i) == validate_barcode(requests[i].barcode).valid

\* the requests i < j fetch the same barcode, with fewer distinct other
\* barcodes fetched in between than the cache holds
WithinProductWindow(i, j) ==
    /\ i < j
    /\ Fetching(i) /\ Fetching(j)
    /\ Cleaned(i) = Cleaned(j)
    /\ Cardinality({ Cleaned(k) : k \in { n \in (i + 1)..(j - 1) : Fetching(n) } }
                   \ {Cleaned(i)}) < ProductCacheSize

====
